---- MODULE Spec2Model ----
(***************************************************************************)
(* The Execution Engine of the Plan-Code-Execute-Repair loop:              *)
(* ExecuterAgent.execute and ExecuterAgent.run_code                        *)
(* (src/app/agents/executer/executer.py).                                  *)
(*                                                                         *)
(* The language model, the shell (subprocess.run) and the PatcherAgent     *)
(* call are the environment: every answer they can give is drawn by \E.    *)
(* Variables whose name starts with a lower-case h are history variables:  *)
(* they record what happened and are read by no action.                    *)
(***************************************************************************)
EXTENDS Integers, Sequences, FiniteSets, TLC

\* Longest command list the language model returns.
MaxCmds == 2

\* Most repair decisions with an unrecognised action value in one run
\* (such a decision leaves retries alone, so the loop has no own bound).
MaxUnrecognized == 2

\* executer.py:128  `while command_failed and retries < 5`
MaxRetries == 5

(***************************************************************************)
(* Values.                                                                 *)
(***************************************************************************)

\* The i-th command of the command list.
Original(i) == [src |-> "list", n |-> i]

\* A replacement command suggested by a repair decision.
Replacement(k) == [src |-> "repair", n |-> k]

\* A local variable of run_code that no assignment has reached yet.
Unbound == [src |-> "unbound", n |-> 0]

\* str(e) of a caught exception.
ExcText == [src |-> "exception", n |-> 0]

\* Absent key of a decision.
Absent == [src |-> "absent", n |-> 0]

Replacements == {Replacement(1)}

\* subprocess.run: exit code 0, exit code non-zero, or an exception.
ExecOutcomes == {"ok", "fail", "raise"}

\* What run_code tells apart in the PatcherAgent call: an exception, a dict
\* whose status is "success", a dict with any other status.  (PatcherAgent
\* is looked up by name at line 171; the class of patcher.py hands
\* execute_rerun a keyword it does not accept, which is the "raise" outcome.)
PatchOutcomes == {"success", "failed", "raise"}

\* The command-list answer of the language model, by what validate_response
\* looks at: is it JSON, is it a dict, does it hold "commands", how many.
ListResponses ==
    { r \in [kind : {"notjson", "scalar", "list", "dict"},
             has_commands : BOOLEAN, n : 0..MaxCmds] :
        /\ (r.kind # "dict" => ~r.has_commands)
        /\ (~r.has_commands => r.n = 0) }

\* A repair answer of the language model, by what run_code looks at:
\*   mentions     the stripped text contains "action" or "response"
\*   json         json.loads fails / gives a dict / gives another value
\*   falsy        the parsed value is falsy ({}, [], 0, "", false, null)
\*   action       value of the "action" key ("rerun" stands for every value
\*                other than "command" and "patch")
\*   command      value of the "command" key
\*   has_response presence of the "response" key
Decisions ==
    { d \in [mentions : BOOLEAN, json : {"invalid", "dict", "other"},
             falsy : BOOLEAN,
             action : {"absent", "command", "patch", "rerun"},
             command : Replacements \cup {Absent},
             has_response : BOOLEAN] :
        /\ (d.json # "dict" =>
               d.action = "absent" /\ d.command = Absent /\ ~d.has_response)
        /\ (d.action # "absent" \/ d.has_response => d.mentions)
        /\ (d.falsy => /\ d.json # "invalid" /\ ~d.mentions
                       /\ d.action = "absent" /\ d.command = Absent) }

(***************************************************************************)
(* Pure functions.                                                         *)
(***************************************************************************)

\* validate_response: False for non-JSON text, TypeError for `in` on a JSON
\* scalar, False for a list or a dict without "commands", else the list.
validate_response(r) ==
    CASE r.kind = "notjson" -> [outcome |-> "False", commands |-> <<>>]
      [] r.kind = "scalar"  -> [outcome |-> "raise", commands |-> <<>>]
      [] r.kind = "list"    -> [outcome |-> "False", commands |-> <<>>]
      [] OTHER ->
           IF r.has_commands
           THEN [outcome |-> "list",
                 commands |-> [i \in 1..r.n |-> Original(i)]]
           ELSE [outcome |-> "False", commands |-> <<>>]

\* validate_rerunner_response: False when the stripped text holds neither
\* "action" nor "response", else the stripped text.
validate_rerunner_response(d) ==
    IF ~d.mentions THEN "False" ELSE "text"

\* The path one repair iteration takes through lines 140-193:
\*   "raise"   an exception reaches `except Exception`
\*   "return"  `if not valid_response: return`
\*   "command" the branch of action == "command"
\*   "patch"   the branch of action == "patch"
\*   "none"    no branch: the while loop starts over
RepairPath(d) ==
    IF validate_rerunner_response(d) = "False" THEN "raise"
    ELSE IF d.json = "invalid" THEN "raise"
    ELSE IF d.falsy THEN "return"
    ELSE IF d.json = "other" THEN "raise"
    ELSE IF d.action = "absent" THEN "raise"
    ELSE IF d.action = "command"
         THEN IF d.command = Absent \/ ~d.has_response
              THEN "raise" ELSE "command"
    ELSE IF d.action = "patch"
         THEN IF ~d.has_response THEN "raise" ELSE "patch"
    ELSE "none"

\* `command_failed = process.returncode != 0`
ReturncodeFailed(out) == out # "ok"

LoopGuard_ceiling_off_by_one(failed, r) == failed /\ r <= MaxRetries

\* `while command_failed and retries < 5`
LoopGuard(failed, r) == failed /\ r < MaxRetries

NextRetries_always(failed, r) == r + 1

\* `if command_failed: retries += 1`
NextRetries(failed, r) == IF failed THEN r + 1 ELSE r

FinalStatus_always_failed(failed) == "failed"

\* `if command_failed: return failed ... return success`
FinalStatus(failed) == IF failed THEN "failed" ELSE "success"

\* The decision has no action field, or is not structured data at all.
NoActionField(d) == d.action = "absent"

(***************************************************************************)
(* State.                                                                  *)
(***************************************************************************)
VARIABLES
    pc,              \* "execute", "for" (loop head), "while" (loop head), "done"
    commands,        \* the validated command list
    idx,             \* position of the for loop in commands (0 before it)
    command,         \* the loop variable `command`
    retries,
    command_failed,
    command_output,
    command_error,
    result,          \* what execute returned, or that it raised
    nUnrecognized,   \* count bounded by MaxUnrecognized
    hResponse,       \* the command-list answer the run started from
    hQueries,        \* repair queries sent to the language model
    hExec,           \* subprocess.run calls
    hReplExec,       \* subprocess.run calls of the action == "command" branch
    hLastExec,       \* the latest subprocess.run call
    hCmdState,       \* per command of the list: how it stands
    hFailedRepairs,  \* per command of the list: repair iterations that failed
    hNoAction,       \* a repair answer without action field was received
    hPatchFailed,    \* the PatcherAgent call raised or reported non-success
    hOnlyRerunFail   \* so far every execution failed and every decision was a
                     \* well-formed action == "command" one

vars == <<pc, commands, idx, command, retries, command_failed, command_output,
          command_error, result, nUnrecognized, hResponse, hQueries, hExec,
          hReplExec, hLastExec, hCmdState, hFailedRepairs, hNoAction,
          hPatchFailed, hOnlyRerunFail>>

hist == <<hResponse, hQueries, hExec, hReplExec, hLastExec, hCmdState,
          hFailedRepairs, hNoAction, hPatchFailed, hOnlyRerunFail>>

(***************************************************************************)
(* State of the other agents.  Each agent has its own specification; the   *)
(* variables of the agents a specification does not model keep the values  *)
(* of their ...Idle predicate.                                             *)
(***************************************************************************)

\* A key that a dict does not hold.
NoKey == <<"<no key>">>

\* The dict {} that _parse_response starts every current_step from.
EmptyDict == [step |-> NoKey, file |-> NoKey, action |-> NoKey,
              description |-> NoKey]

\* PlannerAgent._initialize_data
InitialData == [current_focus |-> <<>>, plan |-> <<>>]

VARIABLES
    planner,      \* a PlannerAgent and one call of its execute
    patcher,      \* a PatcherAgent
    coder         \* one call of CoderAgent.execute and its snapshot

\* PlannerAgent: "idle", "ready", "returned", "reparsed"
p_pc == planner.pc

\* The answer of the language model, a sequence of lines.
p_response == planner.response

\* self.data
p_data == planner.data

\* What PlannerAgent.execute returned.
p_ret == planner.ret

\* The data of a fresh agent after parsing the re-serialized plan.
p_reparsed == planner.reparsed

\* self.data when execute was called.
hDataBefore == planner.hDataBefore

\* An exception was raised inside _parse_response.
hParseRaised == planner.hParseRaised

plannerVars == <<planner>>

NoReturn == [kind |-> "none", plan |-> <<>>]

PlannerIdle ==
    planner = [pc |-> "idle", response |-> <<>>, data |-> InitialData,
               ret |-> NoReturn, reparsed |-> InitialData,
               hDataBefore |-> InitialData, hParseRaised |-> FALSE]

\* PatcherAgent: "idle", "ready", "parsed", "executed"
pt_pc == patcher.pc

\* The file change records handed to response_to_markdown_prompt.
pt_records == patcher.records

\* What validate_response made of the rendered records.
pt_parsed == patcher.parsed

\* The steps of the remediation plan the language model holds ready.
pt_nsteps == patcher.nsteps

\* How PatcherAgent.execute ended.
pt_status == patcher.status

\* The plan steps CoderAgent.execute was called for, in order.
hCoderCalls == patcher.hCoderCalls

patcherVars == <<patcher>>

NoParse == [raised |-> FALSE, records |-> <<>>]

PatcherIdle ==
    patcher = [pc |-> "idle", records |-> <<>>, parsed |-> NoParse,
               nsteps |-> 0, status |-> "none", hCoderCalls |-> <<>>]

\* CoderAgent.execute: "idle", "ready", "validating", "done"
cd_pc == coder.pc

\* `response` of execute: the first answer.
cd_first == coder.first

\* The answer _validate_response_format is looking at.
cd_current == coder.current

\* repository_code: path -> content
cd_files == coder.files

\* repository_structure: the list of paths
cd_structure == coder.structure

\* What execute returned.
cd_ret == coder.ret

\* The reformat queries sent, bounded by MaxReformats.
nReformats == coder.nReformats

\* repository_code when execute was called.
hFilesBefore == coder.hFilesBefore

\* repository_structure when execute was called.
hStructureBefore == coder.hStructureBefore

\* The answer handed to _parse_valid_response.
hParsed == coder.hParsed

\* The answers _validate_response_format has looked at, in order.
hSeen == coder.hSeen

\* An exception reached the except clause of execute.
hRaised == coder.hRaised

coderVars == <<coder>>

\* A variable that holds no text yet.
NoText == <<"<none>">>

\* The empty dict of files.
NoFiles == <<>>

NoCoderReturn == [kind |-> "none", records |-> <<>>]

CoderIdle ==
    coder = [pc |-> "idle", first |-> NoText, current |-> NoText,
             files |-> NoFiles, structure |-> <<>>, ret |-> NoCoderReturn,
             nReformats |-> 0, hFilesBefore |-> NoFiles,
             hStructureBefore |-> <<>>, hParsed |-> NoText,
             hSeen |-> <<>>, hRaised |-> FALSE]

VARIABLES
    parser        \* one call of CoderAgent._parse_valid_response

\* The call: "idle", "ready", "returned"
ps_pc == parser.pc

\* The lines of the body of the answer.
ps_lines == parser.lines

\* The body stands between two lines of tildes.
ps_wrapped == parser.wrapped

\* `files`, the list the call returned.
ps_files == parser.files

parserVars == <<parser>>

ParserIdle ==
    parser = [pc |-> "idle", lines |-> <<>>, wrapped |-> FALSE,
              files |-> <<>>]

VARIABLES
    orch          \* one call of an entry point of AgentOrchestrator

\* The call: "idle", "ready", "coding" (in the loop over the steps),
\* "returned"
o_pc == orch.pc

\* The entry point that was called.
o_entry == orch.entry

\* step_by_step_plan, planner_agent.data["plan"].
o_plan == orch.plan

\* The number of steps the loop `for step in step_by_step_plan` has done.
o_idx == orch.idx

\* What the entry point handed to its caller: kind is "none" (nothing
\* yet), "failed" or "success" (a dict with that status), "plan" (the bare
\* list of steps) or "raised" (an exception left the entry point).
o_ret == orch.ret

\* The calls of agents' execute methods so far, in order.
hCalls == orch.hCalls

orchVars == <<orch>>

OrchIdle ==
    orch = [pc |-> "idle", entry |-> "none", plan |-> <<>>, idx |-> 0,
            ret |-> [kind |-> "none", plan |-> <<>>], hCalls |-> <<>>]

agentVars == <<plannerVars, patcherVars, coderVars, parserVars, orchVars>>

AgentsIdle ==
    PlannerIdle /\ PatcherIdle /\ CoderIdle /\ ParserIdle /\ OrchIdle

NoResult == [status |-> "none", stdout |-> Unbound, stderr |-> Unbound]

Raised == [status |-> "raised", stdout |-> Unbound, stderr |-> Unbound]

ExecuterInit ==
    /\ pc = "execute"
    /\ commands = <<>>
    /\ idx = 0
    /\ command = Unbound
    /\ retries = 0
    /\ command_failed = FALSE
    /\ command_output = Unbound
    /\ command_error = Unbound
    /\ result = NoResult
    /\ nUnrecognized = 0
    /\ hResponse = [kind |-> "none", has_commands |-> FALSE, n |-> 0]
    /\ hQueries = 0
    /\ hExec = 0
    /\ hReplExec = 0
    /\ hLastExec = [kind |-> "none", cmd |-> Unbound, outcome |-> "none"]
    /\ hCmdState = <<>>
    /\ hFailedRepairs = <<>>
    /\ hNoAction = FALSE
    /\ hPatchFailed = FALSE
    /\ hOnlyRerunFail = TRUE

Init == ExecuterInit /\ AgentsIdle

(***************************************************************************)
(* Pieces shared by the actions.                                           *)
(***************************************************************************)

\* `except Exception as e` of run_code: the for loop goes on.
Except ==
    /\ command_error' = ExcText
    /\ command_failed' = TRUE
    /\ pc' = "for"
    /\ UNCHANGED <<command_output, retries, result>>

\* subprocess.run returned: stdout, stderr and returncode are captured.
Capture(cmd, out) ==
    /\ command_output' = cmd
    /\ command_error' = cmd
    /\ command_failed' = ReturncodeFailed(out)

\* A command executed inside the repair loop, and what follows it:
\* `if command_failed: retries += 1 else: break`.
RepairRun(kind, cmd, out) ==
    /\ hExec' = hExec + 1
    /\ hLastExec' = [kind |-> kind, cmd |-> cmd, outcome |-> out]
    /\ IF out = "raise"
       THEN /\ Except
            /\ hCmdState' = [hCmdState EXCEPT ![idx] = "errored"]
            /\ UNCHANGED hFailedRepairs
       ELSE /\ Capture(cmd, out)
            /\ retries' = NextRetries(ReturncodeFailed(out), retries)
            /\ pc' = IF ReturncodeFailed(out) THEN "while" ELSE "for"
            /\ hCmdState' = [hCmdState EXCEPT ![idx] =
                               IF out = "ok" THEN "succeeded" ELSE "failing"]
            /\ hFailedRepairs' = [hFailedRepairs EXCEPT ![idx] =
                                    IF out = "ok" THEN @ ELSE @ + 1]
            /\ UNCHANGED result

(***************************************************************************)
(* Actions.                                                                *)
(***************************************************************************)

\* ExecuterAgent.execute up to the for statement of run_code: the query for
\* the command list, validate_response, retries = 0, command_failed = False.
\* run_code(False) raises TypeError at `for command in commands`, outside
\* every try block.
Execute(r) ==
    /\ pc = "execute"
    /\ hResponse' = r
    /\ LET v == validate_response(r) IN
         IF v.outcome = "list"
         THEN /\ commands' = v.commands
              /\ hCmdState' = [i \in 1..Len(v.commands) |-> "pending"]
              /\ hFailedRepairs' = [i \in 1..Len(v.commands) |-> 0]
              /\ pc' = "for"
              /\ UNCHANGED result
         ELSE /\ pc' = "done"
              /\ result' = Raised
              /\ UNCHANGED <<commands, hCmdState, hFailedRepairs>>
    /\ retries' = 0
    /\ command_failed' = FALSE
    /\ UNCHANGED <<idx, command, command_output, command_error, nUnrecognized,
                   hQueries, hExec, hReplExec, hLastExec, hNoAction,
                   hPatchFailed, hOnlyRerunFail>>
    /\ UNCHANGED agentVars

\* One iteration of `for command in commands` up to the while statement.
ForNext(out) ==
    /\ pc = "for"
    /\ idx < Len(commands)
    /\ idx' = idx + 1
    /\ command' = commands[idx + 1]
    /\ hExec' = hExec + 1
    /\ hLastExec' = [kind |-> "original", cmd |-> commands[idx + 1],
                     outcome |-> out]
    /\ IF out = "raise"
       THEN Except
       ELSE /\ Capture(commands[idx + 1], out)
            /\ pc' = "while"
            /\ UNCHANGED <<retries, result>>
    /\ hCmdState' = [hCmdState EXCEPT ![idx + 1] =
                       CASE out = "ok" -> "succeeded"
                         [] out = "fail" -> "failing"
                         [] OTHER -> "errored"]
    /\ hOnlyRerunFail' = (hOnlyRerunFail /\ out = "fail")
    /\ UNCHANGED <<commands, nUnrecognized, hResponse, hQueries, hReplExec,
                   hFailedRepairs, hNoAction, hPatchFailed>>
    /\ UNCHANGED agentVars

\* The while condition is false: on to the next command of the list.
WhileExit ==
    /\ pc = "while"
    /\ ~LoopGuard(command_failed, retries)
    /\ pc' = "for"
    /\ hCmdState' = [hCmdState EXCEPT ![idx] =
                       IF command_failed THEN "abandoned" ELSE @]
    /\ UNCHANGED <<commands, idx, command, retries, command_failed,
                   command_output, command_error, result, nUnrecognized,
                   hResponse, hQueries, hExec, hReplExec, hLastExec,
                   hFailedRepairs, hNoAction, hPatchFailed, hOnlyRerunFail>>
    /\ UNCHANGED agentVars

\* A repair iteration that ends in an exception (json.loads(False),
\* JSONDecodeError, a missing key, a subscript on a non-dict) or in
\* `if not valid_response: return`.
RepairRaise(d) ==
    /\ pc = "while"
    /\ LoopGuard(command_failed, retries)
    /\ RepairPath(d) \in {"raise", "return"}
    /\ hQueries' = hQueries + 1
    /\ IF RepairPath(d) = "return"
       THEN /\ pc' = "done"
            /\ result' = [status |-> "failed", stdout |-> command_output,
                          stderr |-> command_error]
            /\ UNCHANGED <<command_error, command_failed, command_output,
                           retries>>
       ELSE Except
    \* `command = valid_response["command"]` precedes the read of "response"
    /\ command' = IF /\ validate_rerunner_response(d) # "False"
                     /\ d.action = "command" /\ d.command # Absent
                  THEN d.command ELSE command
    /\ hCmdState' = [hCmdState EXCEPT ![idx] = "errored"]
    /\ hNoAction' = (hNoAction \/ NoActionField(d))
    /\ hOnlyRerunFail' = FALSE
    /\ UNCHANGED <<commands, idx, nUnrecognized, hResponse, hExec, hReplExec,
                   hLastExec, hFailedRepairs, hPatchFailed>>
    /\ UNCHANGED agentVars

\* A repair iteration of the action == "command" branch (the spec's rerun).
RepairCommand(d, out) ==
    /\ pc = "while"
    /\ LoopGuard(command_failed, retries)
    /\ RepairPath(d) = "command"
    /\ hQueries' = hQueries + 1
    /\ command' = d.command
    /\ RepairRun("command", d.command, out)
    /\ hReplExec' = hReplExec + 1
    /\ hOnlyRerunFail' = (hOnlyRerunFail /\ out = "fail")
    /\ UNCHANGED <<commands, idx, nUnrecognized, hResponse, hNoAction,
                   hPatchFailed>>
    /\ UNCHANGED agentVars

\* A repair iteration of the action == "patch" branch.
RepairPatch(d, p, out) ==
    /\ pc = "while"
    /\ LoopGuard(command_failed, retries)
    /\ RepairPath(d) = "patch"
    /\ hQueries' = hQueries + 1
    /\ CASE p = "raise" ->
              /\ Except
              /\ hCmdState' = [hCmdState EXCEPT ![idx] = "errored"]
              /\ UNCHANGED <<hExec, hLastExec, hFailedRepairs>>
         [] p = "failed" ->
              /\ pc' = "done"
              /\ result' = [status |-> "failed", stdout |-> command_output,
                            stderr |-> command_error]
              /\ UNCHANGED <<command_error, command_failed, command_output,
                             retries, hCmdState, hExec, hLastExec,
                             hFailedRepairs>>
         [] OTHER -> RepairRun("patch", command, out)
    /\ hPatchFailed' = (hPatchFailed \/ p # "success")
    /\ hOnlyRerunFail' = FALSE
    /\ UNCHANGED <<commands, idx, command, nUnrecognized, hResponse,
                   hReplExec, hNoAction>>
    /\ UNCHANGED agentVars

\* A repair iteration whose action is neither "command" nor "patch": no
\* branch is taken and the while loop starts over.
RepairUnrecognized(d) ==
    /\ pc = "while"
    /\ LoopGuard(command_failed, retries)
    /\ RepairPath(d) = "none"
    /\ nUnrecognized < MaxUnrecognized
    /\ nUnrecognized' = nUnrecognized + 1
    /\ hQueries' = hQueries + 1
    /\ hOnlyRerunFail' = FALSE
    /\ UNCHANGED <<pc, commands, idx, command, retries, command_failed,
                   command_output, command_error, result, hResponse, hExec,
                   hReplExec, hLastExec, hCmdState, hFailedRepairs, hNoAction,
                   hPatchFailed>>
    /\ UNCHANGED agentVars

\* The for loop is over: lines 199-202.  Both return statements read
\* command_output and command_error; UnboundLocalError when no
\* subprocess.run has returned.
ForEnd ==
    /\ pc = "for"
    /\ idx = Len(commands)
    /\ pc' = "done"
    /\ result' = IF command_output = Unbound \/ command_error = Unbound
                 THEN Raised
                 ELSE [status |-> FinalStatus(command_failed),
                       stdout |-> command_output, stderr |-> command_error]
    /\ UNCHANGED <<commands, idx, command, retries, command_failed,
                   command_output, command_error, nUnrecognized>>
    /\ UNCHANGED hist
    /\ UNCHANGED agentVars

Next ==
    \/ \E r \in ListResponses : Execute(r)
    \/ \E out \in ExecOutcomes : ForNext(out)
    \/ WhileExit
    \/ \E d \in Decisions : RepairRaise(d)
    \/ \E d \in Decisions, out \in ExecOutcomes : RepairCommand(d, out)
    \/ \E d \in Decisions, p \in PatchOutcomes, out \in ExecOutcomes :
          RepairPatch(d, p, out)
    \/ \E d \in Decisions : RepairUnrecognized(d)
    \/ ForEnd

Spec == Init /\ [][Next]_vars

TypeOK ==
    /\ pc \in {"execute", "for", "while", "done"}
    /\ idx \in 0..Len(commands)
    /\ retries \in 0..MaxRetries
    /\ command_failed \in BOOLEAN
    /\ result.status \in {"none", "success", "failed", "raised"}

(***************************************************************************)
(* Properties of the Execution Engine.                                     *)
(***************************************************************************)

\* The run has one command, every execution so far exited non-zero and
\* every repair decision so far was a well-formed action == "command" one.
C1_Scenario == Len(commands) = 1 /\ hOnlyRerunFail

\* C1: with a single command that always fails and a decision stream that
\* always reruns with a replacement that always fails, every repair
\* iteration raises retries by one (so the loop is bounded by the variant
\* 5 - retries), there are never more than 5 repair queries, and the run
\* ends with status failed after exactly 5 repair queries and 5 replacement
\* executions.
C1_RepairBound ==
    C1_Scenario =>
        /\ hQueries <= 5
        /\ hReplExec = hQueries
        /\ retries = hQueries
        /\ (pc = "done" =>
               /\ result.status = "failed"
               /\ hQueries = 5
               /\ hReplExec = 5)

C1_Witness ==
    /\ C1_Scenario
    /\ pc = "done"
    /\ result.status = "failed"
    /\ hQueries = 5

\* C2: the run returns status success only if every command of the list
\* succeeded, on its first execution or through a repair iteration.
C2_SuccessOnlyIfAllSucceeded ==
    result.status = "success" =>
        \A i \in 1..Len(commands) : hCmdState[i] = "succeeded"

\* C3: once the repair loop of a command gave up at the retry ceiling, the
\* run ends with status failed and no later command is executed.
C3_CeilingEndsRun ==
    \A i \in 1..Len(commands) :
        hCmdState[i] = "abandoned" =>
            /\ idx = i
            /\ (pc = "done" => result.status = "failed")

\* C4: the budget of 5 is per command: the repair loop of a command gives
\* up only after 5 failed repair iterations of that very command.
C4_BudgetPerCommand ==
    \A i \in 1..Len(commands) :
        hCmdState[i] = "abandoned" => hFailedRepairs[i] = 5

\* C5: after a repair answer without action field the run has returned
\* status failed with the last captured stdout/stderr (nothing else was
\* queried or executed in between).
C5_NoActionReturnsFailed ==
    hNoAction =>
        /\ pc = "done"
        /\ result = [status |-> "failed", stdout |-> hLastExec.cmd,
                     stderr |-> hLastExec.cmd]

\* A finished run of one command that failed, got one repair decision of
\* the rerun kind, and whose replacement succeeded.
C6_Scenario ==
    /\ pc = "done"
    /\ Len(commands) = 1
    /\ hQueries = 1
    /\ hReplExec = 1
    /\ hLastExec.kind = "command"
    /\ hLastExec.outcome = "ok"

C7_Step ==
    /\ (pc = "while" /\ hReplExec' = hReplExec + 1
                     /\ hLastExec'.outcome = "ok") =>
           (retries' = retries /\ pc' = "for" /\ idx' = idx)
    /\ (pc = "while" /\ hReplExec' = hReplExec + 1
                     /\ hLastExec'.outcome = "fail") =>
           (retries' = retries + 1 /\ pc' = "while" /\ idx' = idx)
    /\ (pc = "for" /\ hExec' = hExec + 1) =>
           (idx' = idx + 1 /\ hLastExec'.kind = "original"
                           /\ hLastExec'.cmd = commands[idx + 1])

\* C7: in a rerun iteration, a replacement that exits with 0 ends the
\* repair loop with retries unchanged, and the for loop goes on with the
\* next command of the list; a replacement that exits non-zero raises
\* retries by exactly 1 and control is back at the head of the repair loop.
C7_RerunIteration == [][C7_Step]_vars

C7_Witness ==
    /\ idx = 1
    /\ hReplExec >= 2
    /\ retries >= 1
    /\ hLastExec.kind = "command"
    /\ hLastExec.outcome = "ok"
    /\ pc = "for"

C9_PatchFailureReturnsFailed ==
    hPatchFailed => pc = "done" /\ result.status = "failed"

\* The command-list answer is not JSON or has no commands field.
InvalidListResponse(r) ==
    r.kind # "none" /\ (r.kind = "notjson" \/ ~r.has_commands)

\* C10: on a command-list answer that is not JSON or lacks the commands
\* field, execute returns a result of status failed, without raising and
\* without having executed a command.
C10_InvalidListFails ==
    (pc = "done" /\ InvalidListResponse(hResponse)) =>
        result.status = "failed" /\ hExec = 0

\* One step of the for loop whose subprocess.run raised, or the return of
\* a success result.
C11_Step ==
    /\ (pc = "for" /\ hExec' = hExec + 1 /\ hLastExec'.outcome = "raise") =>
           (pc' = "while" /\ command_failed' /\ command_error' = ExcText)
    /\ (pc' = "done" /\ result'.status = "success") =>
           \A i \in 1..Len(commands) : hCmdState[i] # "errored"

\* C11: a command of the list whose execution raises counts as failed like
\* a non-zero exit, with the exception text as stderr: control enters the
\* repair loop for it, and no run with an unrepaired raising command ends
\* in success.
C11_ExceptionIsFailedResult == [][C11_Step]_vars

C28_Step ==
    (pc = "while" /\ hQueries' = hQueries + 1) =>
        (pc' # "while" \/ retries' > retries)

\* C28: every iteration of the repair loop (one repair query) ends the
\* repair loop, ends the run, or increases retries.
C28_IterationMakesProgress == [][C28_Step]_vars

(***************************************************************************)
(* Text.  A string is a sequence of atoms: words, the space " ", the       *)
(* colon ":", the backtick, the fence of three backticks and "~~~".  The   *)
(* string operations of the agents are computed on these sequences the    *)
(* way Python computes them on characters.                                 *)
(***************************************************************************)

\* One backtick.
Backtick == "<backtick>"

\* Three backticks.
Fence == "<fence>"

\* str.startswith
StartsWith(s, prefix) ==
    Len(s) >= Len(prefix) /\ SubSeq(s, 1, Len(prefix)) = prefix

RECURSIVE Find(_, _, _)
\* str.find from position i: the first position of sep at or after i, 0
\* when there is none.
Find(s, sep, i) ==
    IF i + Len(sep) - 1 > Len(s) THEN 0
    ELSE IF SubSeq(s, i, i + Len(sep) - 1) = sep THEN i
    ELSE Find(s, sep, i + 1)

RECURSIVE Split(_, _)
\* str.split(sep): the list of the pieces between the occurrences of sep.
Split(s, sep) ==
    LET k == Find(s, sep, 1) IN
        IF k = 0 THEN <<s>>
        ELSE <<SubSeq(s, 1, k - 1)>>
                 \o Split(SubSeq(s, k + Len(sep), Len(s)), sep)

\* The newline.
NL == "<newline>"

\* What str.strip() removes.
Whitespace == {" ", NL}

RECURSIVE LStrip(_)
LStrip(s) ==
    IF s # <<>> /\ Head(s) \in Whitespace THEN LStrip(Tail(s)) ELSE s

RECURSIVE RStrip(_)
RStrip(s) ==
    IF s # <<>> /\ s[Len(s)] \in Whitespace
    THEN RStrip(SubSeq(s, 1, Len(s) - 1))
    ELSE s

\* str.strip()
Strip(s) == RStrip(LStrip(s))

\* str.replace(atom, "")
Remove(s, atom) == SelectSeq(s, LAMBDA x : x # atom)

RECURSIVE Join(_, _)
\* sep.join(list)
Join(list, sep) ==
    IF list = <<>> THEN <<>>
    ELSE IF Len(list) = 1 THEN list[1]
    ELSE list[1] \o sep \o Join(Tail(list), sep)

(***************************************************************************)
(* PlannerAgent (src/app/agents/planner/planner.py).                       *)
(***************************************************************************)

\* Longest answer of the language model to the planner, in lines.
MaxPlanLines == 4

CurrentFocusMarker == <<"Current", " ", "Focus", ":">>

PlanMarker == <<"Plan", ":">>

StepMarker == <<"-", " ", "Step">>

FileMarker == <<"-", " ", "File", ":">>

ActionMarker == <<"-", " ", "Action", ":">>

DescriptionMarker == <<"-", " ", "Description", ":">>

\* The lines an answer is made of.
PlannerLines ==
    { CurrentFocusMarker \o <<" ", "f">>,
      PlanMarker,
      StepMarker \o <<" ", "1", ":", " ", "t">>,
      StepMarker \o <<" ", "2", ":", " ", "t">>,
      StepMarker \o <<":">>,
      FileMarker \o <<" ", "a">>,
      FileMarker,
      ActionMarker \o <<" ", "m">>,
      DescriptionMarker \o <<" ", "d">>,
      <<"w">>,
      <<"k", ":", " ", "v", Fence>>,
      <<>> }

RECURSIVE SeqsUpTo(_, _)
\* The sequences over S of length at most n.
SeqsUpTo(S, n) ==
    IF n = 0 THEN {<<>>}
    ELSE LET shorter == SeqsUpTo(S, n - 1) IN
             shorter \cup { Append(q, x) : q \in shorter, x \in S }

\* The answers of at most n lines.
PlannerResponses(n) == SeqsUpTo(PlannerLines, n)

\* A dict is truthy when it holds a key.
Truthy(dict) == dict # EmptyDict

\* `if current_step: steps.append(current_step)`
Flush(steps, current_step) ==
    IF Truthy(current_step) THEN Append(steps, current_step) ELSE steps

\* The locals of _parse_response before the first line; focus is
\* self.data["current_focus"], which line 80 writes at once.
ParseStart(data) ==
    [section |-> "None", current_step |-> EmptyDict, steps |-> <<>>,
     focus |-> data.current_focus, exc |-> FALSE]

\* `current_step[key] = line.split(": ")[1].strip()`: IndexError when the
\* line holds no ": ".
SetField(st, key, line) ==
    LET parts == Split(line, <<":", " ">>) IN
        IF Len(parts) < 2 THEN [st EXCEPT !.exc = TRUE]
        ELSE [st EXCEPT !.current_step[key] = Strip(parts[2])]

\* The body of `for line in lines` (lines 77-104) for one line.
ParseLine(st, raw) ==
    LET line == Strip(raw) IN
    IF st.exc THEN st
    ELSE IF StartsWith(line, CurrentFocusMarker)
         THEN [st EXCEPT
                 !.focus = Strip(Split(line, CurrentFocusMarker)[2]),
                 !.section = "current_focus"]
    ELSE IF StartsWith(line, PlanMarker) THEN [st EXCEPT !.section = "plan"]
    ELSE IF st.section = "plan"
         THEN IF StartsWith(line, StepMarker)
              THEN LET flushed == Flush(st.steps, st.current_step)
                       tokens == Split(Strip(Split(line, <<":">>)[1]),
                                       <<" ">>)
                   IN  IF Len(tokens) < 3
                       THEN [st EXCEPT !.steps = flushed, !.exc = TRUE]
                       ELSE [st EXCEPT
                               !.steps = flushed,
                               !.current_step =
                                   [step |-> tokens[3], file |-> <<>>,
                                    action |-> <<>>, description |-> <<>>]]
              ELSE IF StartsWith(line, FileMarker)
                   THEN SetField(st, "file", line)
              ELSE IF StartsWith(line, ActionMarker)
                   THEN SetField(st, "action", line)
              ELSE IF StartsWith(line, DescriptionMarker)
                   THEN SetField(st, "description", line)
              ELSE IF line # <<>>
                   \* `line and current_step["description"]`: KeyError
                   THEN IF st.current_step.description = NoKey
                        THEN [st EXCEPT !.exc = TRUE]
                        ELSE IF st.current_step.description # <<>>
                        THEN [st EXCEPT !.current_step.description =
                                           @ \o <<" ">> \o Strip(line)]
                        ELSE st
              ELSE st
    ELSE st

RECURSIVE ParseLines(_, _)
ParseLines(st, lines) ==
    IF lines = <<>> THEN st
    ELSE ParseLines(ParseLine(st, Head(lines)), Tail(lines))

\* Lines 106-113: the last flush, the fences removed from the last
\* description (KeyError when that step has none), the plan stored.
ParseEnd(st) ==
    IF st.exc THEN st
    ELSE LET steps == Flush(st.steps, st.current_step) IN
         IF steps = <<>> THEN [st EXCEPT !.steps = steps]
         ELSE IF steps[Len(steps)].description = NoKey
              THEN [st EXCEPT !.steps = steps, !.exc = TRUE]
              ELSE [st EXCEPT !.steps =
                       [steps EXCEPT ![Len(steps)].description =
                                         Remove(@, Fence)]]

\* PlannerAgent._parse_response: self.data afterwards, and whether the
\* except clause of line 115 was entered.
_parse_response(data, response) ==
    LET st == ParseEnd(ParseLines(ParseStart(data), response)) IN
        [data |-> [current_focus |-> st.focus,
                   plan |-> IF st.exc THEN data.plan ELSE st.steps],
         raised |-> st.exc]

\* An answer whose plan an earlier call of the same agent has stored.
EarlierResponse ==
    << PlanMarker,
       StepMarker \o <<" ", "1", ":", " ", "t">>,
       DescriptionMarker \o <<" ", "d">> >>

\* self.data when execute is called: fresh, or left by an earlier call.
DataAtCall ==
    { InitialData, _parse_response(InitialData, EarlierResponse).data }

PlannerInit ==
    /\ \E response \in PlannerResponses(MaxPlanLines), data \in DataAtCall :
           planner = [pc |-> "ready", response |-> response, data |-> data,
                      ret |-> NoReturn, reparsed |-> InitialData,
                      hDataBefore |-> data, hParseRaised |-> FALSE]
    /\ ExecuterInit
    /\ PatcherIdle
    /\ CoderIdle
    /\ ParserIdle
    /\ OrchIdle

\* PlannerAgent.execute.  prompt_ok is false when the steps before the
\* parse raise (the prompt file is missing, the template is empty, the
\* query raises): the except clause of line 40 returns the failure dict.
\* The value _parse_response returns is dropped at line 38.
PlannerExecute(prompt_ok) ==
    /\ p_pc = "ready"
    /\ IF prompt_ok
       THEN LET r == _parse_response(p_data, p_response) IN
                planner' = [planner EXCEPT
                                !.pc = "returned",
                                !.data = r.data,
                                !.hParseRaised = r.raised,
                                !.ret = [kind |-> "plan",
                                         plan |-> r.data.plan]]
       ELSE planner' = [planner EXCEPT
                            !.pc = "returned",
                            !.ret = [kind |-> "failed", plan |-> <<>>]]
    /\ UNCHANGED <<vars, patcherVars, coderVars, parserVars, orchVars>>

\* One line of the re-serialized plan, left out for a key the step lacks.
FieldLine(marker, value) ==
    IF value = NoKey THEN <<>> ELSE <<marker \o <<" ">> \o value>>

RECURSIVE StepLines(_)
\* Per step the step header, the File, Action and Description lines.
StepLines(steps) ==
    IF steps = <<>> THEN <<>>
    ELSE LET step == Head(steps) IN
             (IF step.step = NoKey THEN <<>>
              ELSE <<StepMarker \o <<" ">> \o step.step \o <<":">>>>)
             \o FieldLine(FileMarker, step.file)
             \o FieldLine(ActionMarker, step.action)
             \o FieldLine(DescriptionMarker, step.description)
             \o StepLines(Tail(steps))

\* The plan written back in the textual shape the parser reads.
Serialize(data) ==
    << CurrentFocusMarker \o <<" ">> \o data.current_focus, PlanMarker >>
        \o StepLines(data.plan)

\* The plan that execute produced is written back and parsed by a fresh
\* agent.
PlannerReparse ==
    /\ p_pc = "returned"
    /\ p_ret.kind = "plan"
    /\ ~hParseRaised
    /\ planner' = [planner EXCEPT
                       !.pc = "reparsed",
                       !.reparsed =
                           _parse_response(InitialData,
                                           Serialize(p_data)).data]
    /\ UNCHANGED <<vars, patcherVars, coderVars, parserVars, orchVars>>

PlannerNext ==
    \/ \E prompt_ok \in BOOLEAN : PlannerExecute(prompt_ok)
    \/ PlannerReparse

SpecPlanner == PlannerInit /\ [][PlannerNext]_plannerVars

(***************************************************************************)
(* Properties of the Plan Compiler.                                        *)
(***************************************************************************)

\* C14: when parsing the answer raised, execute has returned the failure
\* dict and no plan (neither a partial nor an earlier one).
C14_ParseFailureReturnsFailure ==
    (p_pc = "returned" /\ hParseRaised) => p_ret.kind = "failed"

\* The number a step carries (0 for a step without number).
StepValue(step) ==
    CASE step.step = <<"1">> -> 1
      [] step.step = <<"2">> -> 2
      [] OTHER -> 0

\* C15: the step numbers of every plan the parser produces are pairwise
\* distinct and non-decreasing in input order.
C15_StepNumbersOrdered ==
    (p_pc = "returned" /\ p_ret.kind = "plan" /\ ~hParseRaised) =>
        \A i, j \in 1..Len(p_data.plan) :
            i < j => /\ p_data.plan[i].step # p_data.plan[j].step
                     /\ StepValue(p_data.plan[i]) <= StepValue(p_data.plan[j])

\* Every step of the plan holds its four keys.
FullPlan(plan) ==
    \A i \in 1..Len(plan) :
        /\ plan[i].step # NoKey
        /\ plan[i].file # NoKey
        /\ plan[i].action # NoKey
        /\ plan[i].description # NoKey

\* C16: parsing the re-serialized form of a parsed plan gives the plan
\* back, focus and steps.
C16_ReparseIsIdentity ==
    (p_pc = "reparsed" /\ FullPlan(p_data.plan)) => p_reparsed = p_data

RECURSIVE StepHeaderNumbers(_, _)
\* The numbers of the step-header lines that stand in plan mode (after a
\* Plan: line with no Current Focus: line since), in input order.
StepHeaderNumbers(lines, inPlan) ==
    IF lines = <<>> THEN <<>>
    ELSE LET line == Head(lines) IN
             IF StartsWith(line, <<"Current", " ", "Focus", ":">>)
             THEN StepHeaderNumbers(Tail(lines), FALSE)
             ELSE IF StartsWith(line, <<"Plan", ":">>)
             THEN StepHeaderNumbers(Tail(lines), TRUE)
             ELSE IF inPlan /\ StartsWith(line, <<"-", " ", "Step", " ">>)
             THEN <<line[5]>> \o StepHeaderNumbers(Tail(lines), TRUE)
             ELSE StepHeaderNumbers(Tail(lines), inPlan)

\* C26: a plan parsed without an exception holds one step per step-header
\* line seen in plan mode, in input order, each carrying the number of its
\* header: no other line has created a step.
C26_OneStepPerHeader ==
    (p_pc = "returned" /\ p_ret.kind = "plan" /\ ~hParseRaised) =>
        LET numbers == StepHeaderNumbers(p_response, FALSE) IN
            /\ Len(p_data.plan) = Len(numbers)
            /\ \A i \in 1..Len(p_data.plan) :
                   p_data.plan[i].step = <<numbers[i]>>

\* C30: when _parse_response raised, self.data is what it was before the
\* call, plan and current_focus.
C30_RaiseLeavesDataUntouched ==
    (p_pc = "returned" /\ hParseRaised) => p_data = hDataBefore

(***************************************************************************)
(* PatcherAgent (src/app/agents/patcher/patcher.py).                       *)
(***************************************************************************)

\* Most records in a list handed to response_to_markdown_prompt.
MaxRecords == 2

\* Most lines in the content of a record.
MaxCodeLines == 2

\* Most steps of a remediation plan.
MaxPatchSteps == 2

\* The delimiter that wraps a rendered answer.
Tildes == "~~~"

\* "File: "
FileHeaderPrefix == <<"File", ":", " ">>

\* A value that is None.
None == NoText

\* The lines the content of a record is made of: plain text, an empty
\* line, a bare fence, a fence with a language tag, a line of tildes.
PatcherCodeLines == { <<"x">>, <<>>, <<Fence>>, <<Fence, "py">>, <<Tildes>> }

\* The sequences over S of length 1..n.
NonEmptySeqsUpTo(S, n) == SeqsUpTo(S, n) \ {<<>>}

\* The contents of at most n lines: the lines joined by newlines.
PatcherCodes(n) ==
    { Join(lines, <<NL>>) : lines \in NonEmptySeqsUpTo(PatcherCodeLines, n) }

PatcherPaths == { <<"a">>, <<"b">> }

\* The lists of at most m records with contents of at most n lines.
PatcherRecordLists(m, n) ==
    SeqsUpTo([file : PatcherPaths, code : PatcherCodes(n)], m)

\* The f-string of line 82 for one record.
RenderBlock(rec) ==
    FileHeaderPrefix \o <<Backtick>> \o rec.file
        \o <<Backtick, ":", NL, Fence, NL>> \o rec.code \o <<NL, Fence>>

\* PatcherAgent.response_to_markdown_prompt
response_to_markdown_prompt(records) ==
    <<Tildes, NL>>
        \o Join([i \in 1..Len(records) |-> RenderBlock(records[i])], <<NL>>)
        \o <<NL, Tildes>>

RECURSIVE RFind(_, _, _)
\* str.rfind of one atom: its last position at or before i, 0 when there
\* is none.
RFind(s, atom, i) ==
    IF i = 0 THEN 0
    ELSE IF s[i] = atom THEN i
    ELSE RFind(s, atom, i - 1)

\* `if current_file and current_code: result.append(...)`
PatcherFlush(st) ==
    IF st.current_file # None /\ st.current_file # <<>>
           /\ st.current_code # <<>>
    THEN Append(st.result, [file |-> st.current_file,
                            code |-> Join(st.current_code, <<NL>>)])
    ELSE st.result

\* The body of the for loop of lines 47-57 for one line.
PatcherLine(st, line) ==
    IF st.exc THEN st
    ELSE IF StartsWith(line, FileHeaderPrefix)
         THEN LET parts == Split(line, <<Backtick>>) IN
                  IF Len(parts) < 2
                  THEN [st EXCEPT !.result = PatcherFlush(st), !.exc = TRUE]
                  ELSE [st EXCEPT !.result = PatcherFlush(st),
                                  !.current_file = Strip(parts[2]),
                                  !.current_code = <<>>,
                                  !.code_block = FALSE]
    ELSE IF StartsWith(line, <<Fence>>)
         THEN [st EXCEPT !.code_block = ~@]
    ELSE [st EXCEPT !.current_code = Append(@, line)]

RECURSIVE PatcherLines(_, _)
PatcherLines(st, lines) ==
    IF lines = <<>> THEN st
    ELSE PatcherLines(PatcherLine(st, Head(lines)), Tail(lines))

\* PatcherAgent.validate_response: the records, or that it raised
\* (IndexError of `split("~~~", 1)[1]` or of `line.split(backtick)[1]`).
patcher_validate_response(response) ==
    LET stripped == Strip(response)
        k == Find(stripped, <<Tildes>>, 1)
    IN  IF k = 0 THEN [raised |-> TRUE, records |-> <<>>]
        ELSE LET rest == SubSeq(stripped, k + 1, Len(stripped))
                 r == RFind(rest, Tildes, Len(rest))
                 \* rfind gives -1 when there is none: response[:-1]
                 inner == Strip(SubSeq(rest, 1,
                                       IF r = 0 THEN Len(rest) - 1 ELSE r - 1))
                 st == PatcherLines([result |-> <<>>, current_file |-> None,
                                     current_code |-> <<>>,
                                     code_block |-> FALSE, exc |-> FALSE],
                                    Split(inner, <<NL>>))
             IN  IF st.exc THEN [raised |-> TRUE, records |-> <<>>]
                 ELSE [raised |-> FALSE, records |-> PatcherFlush(st)]

\* The parameters of PlannerAgent.execute_rerun besides self
\* (planner.py:43).
ExecuteRerunParams ==
    {"user_prompt", "output", "error", "commands", "rerun_prompt_path"}

\* The keywords of the call of execute_rerun at patcher.py:97.
PatcherCallKeywords ==
    {"repository_structure", "repository_code", "user_prompt", "output",
     "error", "commands"}

\* What a PlannerAgent object has: the attributes set by __init__ and the
\* methods of the class.
PlannerAttributes ==
    {"llm", "index_name", "data", "env", "_initialize_data", "_load_prompt",
     "execute", "execute_rerun", "_generate_prompt", "_get_llm_response",
     "_parse_response"}

\* A Python call binds only when every keyword names a parameter;
\* TypeError otherwise.
CallBinds(params, keywords) == keywords \subseteq params

\* PatcherAgent.execute for a remediation plan of nsteps steps: how it ends
\* and the steps it called CoderAgent.execute for.  execute_rerun reads
\* self._get_repository_structure and self._get_relevant_code (planner.py:
\* 44-45), the loop of patcher.py:99 reads planner_agent.plan; the results
\* of coder.execute are dropped at line 101.
PatcherOutcome(nsteps) ==
    IF ~CallBinds(ExecuteRerunParams, PatcherCallKeywords)
    THEN [status |-> "raised", calls |-> <<>>]
    ELSE IF ~({"_get_repository_structure", "_get_relevant_code"}
                  \subseteq PlannerAttributes)
    THEN [status |-> "raised", calls |-> <<>>]
    ELSE IF "plan" \notin PlannerAttributes
    THEN [status |-> "raised", calls |-> <<>>]
    ELSE [status |-> "success", calls |-> [i \in 1..nsteps |-> i]]

PatcherInit ==
    /\ \E records \in PatcherRecordLists(MaxRecords, MaxCodeLines),
          nsteps \in 0..MaxPatchSteps :
           patcher = [pc |-> "ready", records |-> records,
                      parsed |-> NoParse, nsteps |-> nsteps,
                      status |-> "none", hCoderCalls |-> <<>>]
    /\ ExecuterInit
    /\ PlannerIdle
    /\ CoderIdle
    /\ ParserIdle
    /\ OrchIdle

\* The records are rendered by response_to_markdown_prompt and the text
\* is parsed by validate_response.
PatcherRoundTrip ==
    /\ pt_pc = "ready"
    /\ patcher' = [patcher EXCEPT
                       !.pc = "parsed",
                       !.parsed = patcher_validate_response(
                                      response_to_markdown_prompt(pt_records))]
    /\ UNCHANGED <<vars, plannerVars, coderVars, parserVars, orchVars>>

\* PatcherAgent.execute
PatcherExecute ==
    /\ pt_pc = "ready"
    /\ patcher' = [patcher EXCEPT
                       !.pc = "executed",
                       !.status = PatcherOutcome(pt_nsteps).status,
                       !.hCoderCalls = PatcherOutcome(pt_nsteps).calls]
    /\ UNCHANGED <<vars, plannerVars, coderVars, parserVars, orchVars>>

PatcherNext == PatcherRoundTrip \/ PatcherExecute

SpecPatcher == PatcherInit /\ [][PatcherNext]_patcherVars

(***************************************************************************)
(* Properties of the Patch Coordinator.                                    *)
(***************************************************************************)

\* C12: PatcherAgent.execute has called the Code Synthesizer exactly once
\* for every step of the remediation plan, in plan order.
C12_OneCoderCallPerStep ==
    pt_pc = "executed" => hCoderCalls = [i \in 1..pt_nsteps |-> i]

\* C13: a call of PatcherAgent.execute in which every step of the
\* remediation plan was dispatched has returned status success.
C13_SuccessOnceDispatched ==
    (pt_pc = "executed" /\ Len(hCoderCalls) = pt_nsteps) =>
        pt_status = "success"

\* C17: validate_response gives back, in order, the records that
\* response_to_markdown_prompt rendered.
C17_FileBlockRoundTrip ==
    pt_pc = "parsed" => ~pt_parsed.raised /\ pt_parsed.records = pt_records

(***************************************************************************)
(* CoderAgent (src/app/agents/coder/coder.py).  execute is modelled for    *)
(* the arguments its signature names: repository_code a dict from paths    *)
(* to contents, repository_structure a list of paths.                      *)
(***************************************************************************)

\* Most lines in the body of an answer of the language model.
MaxCoderLines == 3

\* Most reformat queries of one call: the depth at which the recursion of
\* _validate_response_format is cut off.
MaxReformats == 2

\* "File:"
CoderFileMarker == <<"File", ":">>

\* The lines an answer is made of: headers for two paths, text, a fence,
\* an empty line.
CoderLines ==
    { <<"File", ":", " ", "a">>,
      <<"File", ":", " ", "b">>,
      <<"x">>,
      <<Fence>>,
      <<>> }

\* The bodies of at most n lines.
CoderBodies(n) == { Join(lines, <<NL>>) : lines \in SeqsUpTo(CoderLines, n) }

\* A body between two lines of tildes.
Wrap(body) == <<Tildes, NL>> \o body \o <<NL, Tildes>>

\* The first answers: every body, bare and wrapped.
CoderResponses(n) ==
    CoderBodies(n) \cup { Wrap(body) : body \in CoderBodies(n) }

\* The answers to a reformat query: one in the format, one not.
ReformatAnswers ==
    { Wrap(<<"File", ":", " ", "b", NL, "y">>), <<"oops">> }

\* The snapshots execute is called with: empty, and holding file a.
CoderSnapshots ==
    { [files |-> NoFiles, structure |-> <<>>],
      [files |-> (<<"a">> :> <<"old">>), structure |-> << <<"a">> >>] }

WellFormed_any_fenced(response) ==
    /\ response # <<>>
    /\ Head(response) = Tildes
    /\ response[Len(response)] = Tildes

\* The test of line 37:
\* startswith("~~~") and endswith("~~~") and "File:" in response
WellFormed(response) ==
    /\ response # <<>>
    /\ Head(response) = Tildes
    /\ response[Len(response)] = Tildes
    /\ Find(response, CoderFileMarker, 1) # 0

RECURSIVE LStripTildes(_)
LStripTildes(s) ==
    IF s # <<>> /\ Head(s) = Tildes THEN LStripTildes(Tail(s)) ELSE s

RECURSIVE RStripTildes(_)
RStripTildes(s) ==
    IF s # <<>> /\ s[Len(s)] = Tildes
    THEN RStripTildes(SubSeq(s, 1, Len(s) - 1))
    ELSE s

\* str.strip("~~~"): the tildes at both ends are removed.
StripTildes(s) == RStripTildes(LStripTildes(s))

\* str.splitlines(): no line for the empty text, none after a final
\* newline.
SplitLines(s) ==
    IF s = <<>> THEN <<>>
    ELSE LET parts == Split(s, <<NL>>) IN
             IF parts[Len(parts)] = <<>>
             THEN SubSeq(parts, 1, Len(parts) - 1)
             ELSE parts

\* `if current_file: files.append(...)`
CoderFlush(st) ==
    IF st.current_file # None /\ st.current_file # <<>>
    THEN Append(st.files, [file |-> st.current_file,
                           code |-> Join(st.current_code, <<NL>>)])
    ELSE st.files

\* The body of the for loop of lines 109-118 for one line.
CoderLine(st, line) ==
    IF StartsWith(line, CoderFileMarker)
    THEN [files |-> CoderFlush(st),
          current_file |-> Strip(Split(line, <<":">>)[2]),
          current_code |-> <<>>]
    ELSE IF StartsWith(line, <<Fence>>) THEN st
    ELSE [st EXCEPT !.current_code = Append(@, line)]

RECURSIVE CoderParseLines(_, _)
CoderParseLines(st, lines) ==
    IF lines = <<>> THEN st
    ELSE CoderParseLines(CoderLine(st, Head(lines)), Tail(lines))

\* CoderAgent._parse_valid_response
_parse_valid_response(response) ==
    CoderFlush(CoderParseLines([files |-> <<>>, current_file |-> None,
                                current_code |-> <<>>],
                               SplitLines(StripTildes(Strip(response)))))

Upsert_drops_the_rest(files, path, content) == (path :> content)

\* repository_code[file_name] = file_content
Upsert(files, path, content) == (path :> content) @@ files

AppendIfNew_never(structure, path) == structure

\* if file_name not in repository_structure:
\*     repository_structure.append(file_name)
AppendIfNew(structure, path) ==
    IF \E i \in 1..Len(structure) : structure[i] = path
    THEN structure
    ELSE Append(structure, path)

RECURSIVE SaveRecords(_, _, _)
\* The snapshot after the loop of _save_code_to_project has updated
\* repository_code and repository_structure for the first k records.
SaveRecords(snapshot, records, k) ==
    IF k = 0 THEN snapshot
    ELSE LET before == SaveRecords(snapshot, records, k - 1)
             rec == records[k]
         IN  [files |-> Upsert(before.files, rec.file, rec.code),
              structure |-> AppendIfNew(before.structure, rec.file)]

ReturnFalse == [kind |-> "False", records |-> <<>>]

CoderInit ==
    /\ \E snapshot \in CoderSnapshots :
           coder = [pc |-> "ready", first |-> NoText, current |-> NoText,
                    files |-> snapshot.files,
                    structure |-> snapshot.structure,
                    ret |-> NoCoderReturn, nReformats |-> 0,
                    hFilesBefore |-> snapshot.files,
                    hStructureBefore |-> snapshot.structure,
                    hParsed |-> NoText, hSeen |-> <<>>, hRaised |-> FALSE]
    /\ ExecuterInit
    /\ PlannerIdle
    /\ PatcherIdle
    /\ ParserIdle
    /\ OrchIdle

\* Lines 81-84: the prompt is rendered and the language model answers r,
\* or one of the two raises and execute returns False (lines 98-100).
CoderQuery(ok, r) ==
    /\ cd_pc = "ready"
    /\ IF ok
       THEN coder' = [coder EXCEPT !.pc = "validating", !.first = r,
                                   !.current = r, !.hSeen = <<r>>]
       ELSE coder' = [coder EXCEPT !.pc = "done", !.ret = ReturnFalse,
                                   !.hRaised = TRUE]
    /\ UNCHANGED <<vars, plannerVars, patcherVars, parserVars, orchVars>>

\* Lines 39-43: the answer _validate_response_format looks at is not in the
\* format; it asks the language model again and recurses on the answer r.
\* The query raising, or the recursion reaching its depth, is caught by
\* execute, which returns False.
CoderReformat(ok, r) ==
    /\ cd_pc = "validating"
    /\ ~WellFormed(cd_current)
    /\ IF ok /\ nReformats < MaxReformats
       THEN coder' = [coder EXCEPT !.current = r,
                                   !.nReformats = nReformats + 1,
                                   !.hSeen = Append(hSeen, r)]
       ELSE coder' = [coder EXCEPT !.pc = "done", !.ret = ReturnFalse,
                                   !.hRaised = TRUE]
    /\ UNCHANGED <<vars, plannerVars, patcherVars, parserVars, orchVars>>

\* Lines 87-97: _validate_response_format returned True, so line 88 is
\* skipped and `response`, still the first answer, is parsed.  No record:
\* False.  Otherwise _save_code_to_project runs; failAt = 0 when every file
\* is written, k when writing the file of record k raises (lines 68-71),
\* after lines 60-65 have updated the snapshot for records 1..k.
CoderApply(failAt) ==
    /\ cd_pc = "validating"
    /\ WellFormed(cd_current)
    /\ LET valid_response == _parse_valid_response(cd_first)
           applied == IF failAt = 0 THEN Len(valid_response) ELSE failAt
           after == SaveRecords([files |-> cd_files,
                                 structure |-> cd_structure],
                                valid_response, applied)
       IN  /\ failAt \in 0..Len(valid_response)
           /\ coder' = [coder EXCEPT
                             !.pc = "done",
                             !.hParsed = cd_first,
                             !.hRaised = (failAt # 0),
                             !.files = after.files,
                             !.structure = after.structure,
                             !.ret = IF valid_response = <<>> \/ failAt # 0
                                     THEN ReturnFalse
                                     ELSE [kind |-> "records",
                                           records |-> valid_response]]
    /\ UNCHANGED <<vars, plannerVars, patcherVars, parserVars, orchVars>>

CoderNext ==
    \/ \E ok \in BOOLEAN, r \in CoderResponses(MaxCoderLines) :
           CoderQuery(ok, r)
    \/ \E ok \in BOOLEAN, r \in ReformatAnswers : CoderReformat(ok, r)
    \/ \E failAt \in 0..MaxCoderLines : CoderApply(failAt)

SpecCoder == CoderInit /\ [][CoderNext]_coderVars

(***************************************************************************)
(* Properties of the Code Synthesizer.                                     *)
(***************************************************************************)

\* The paths listed in a structure.
Entries(structure) == { structure[i] : i \in 1..Len(structure) }

\* C18, as claimed: after execute has returned a list of records, the path
\* of every returned record is a key of the files mapping holding that
\* record's content, and is an entry of the structure.
C18_EveryRecordInSnapshot ==
    cd_ret.kind = "records" =>
        \A i \in 1..Len(cd_ret.records) :
            LET rec == cd_ret.records[i] IN
                /\ rec.file \in DOMAIN cd_files
                /\ cd_files[rec.file] = rec.code
                /\ rec.file \in Entries(cd_structure)

\* The last of the records that names the path.
LastRecordOf(records, path) ==
    records[CHOOSE i \in 1..Len(records) :
                /\ records[i].file = path
                /\ \A j \in (i + 1)..Len(records) : records[j].file # path]

\* C18, amended: after execute has returned a list of records, the path of
\* every returned record is a key of the files mapping holding the content
\* of the last returned record with that path, and is an entry of the
\* structure.
C18_LastRecordInSnapshot ==
    cd_ret.kind = "records" =>
        \A i \in 1..Len(cd_ret.records) :
            LET rec == cd_ret.records[i] IN
                /\ rec.file \in DOMAIN cd_files
                /\ cd_files[rec.file] =
                       LastRecordOf(cd_ret.records, rec.file).code
                /\ rec.file \in Entries(cd_structure)

\* execute returned two records for one path, with different contents,
\* on a snapshot that did not hold the path.
C18_Witness ==
    /\ cd_ret.kind = "records"
    /\ Len(cd_ret.records) = 2
    /\ cd_ret.records[1].file = cd_ret.records[2].file
    /\ cd_ret.records[1].code # cd_ret.records[2].code
    /\ cd_ret.records[1].file \notin Entries(hStructureBefore)

\* C19: whenever execute has returned False, the files mapping and the
\* structure of the snapshot are what they were when it was called.
C19_FalseLeavesSnapshot ==
    cd_ret.kind = "False" =>
        cd_files = hFilesBefore /\ cd_structure = hStructureBefore

\* C20: the answer that execute parses and applies is in the accepted
\* format, and it is the answer that format validation accepted.
C20_ParsedWasAccepted ==
    hParsed # NoText => WellFormed(hParsed) /\ hParsed = cd_current

\* A text that does not both start and end with the line of tildes and
\* hold a File: header.
Malformed(text) ==
    ~(/\ Len(text) > 0
      /\ text[1] = "~~~"
      /\ text[Len(text)] = "~~~"
      /\ \E i \in 1..(Len(text) - 1) : text[i] = "File" /\ text[i + 1] = ":")

\* C27: the validate/reformat cycle has sent exactly one reformat query
\* for each malformed answer it has moved past; it is left for parsing only
\* on a well-formed answer, after as many queries as it saw malformed
\* answers; and it ends without acceptance only by an exception, never by a
\* rejection.
C27_OneQueryPerMalformed ==
    /\ hSeen # <<>> =>
           /\ Len(hSeen) = nReformats + 1
           /\ \A i \in 1..(Len(hSeen) - 1) : Malformed(hSeen[i])
    /\ hParsed # NoText =>
           /\ ~Malformed(hSeen[Len(hSeen)])
           /\ nReformats = Cardinality({ i \in 1..Len(hSeen) :
                                           Malformed(hSeen[i]) })
    /\ (cd_pc = "done" /\ hSeen # <<>> /\ hParsed = NoText) =>
           hRaised /\ Malformed(hSeen[Len(hSeen)])

\* The cycle accepted the answer to its second reformat query.
C27_Witness ==
    /\ hParsed # NoText
    /\ nReformats = 2
    /\ Len(hSeen) = 3

\* The paths named by the records that execute handed to
\* _save_code_to_project.
SavedPaths ==
    { _parse_valid_response(hParsed)[i].file :
          i \in 1..Len(_parse_valid_response(hParsed)) }

\* C29: after _save_code_to_project has run, every path that no record
\* names has the content it had, and is a key only if it was one; the
\* structure is the old structure followed by record paths that were not
\* in it, each once; and when all records were applied, a path holds the
\* content of the last record that names it.
C29_OnlyRecordPathsChange ==
    hParsed # NoText =>
        /\ \A path \in DOMAIN hFilesBefore \ SavedPaths :
               path \in DOMAIN cd_files /\ cd_files[path] = hFilesBefore[path]
        /\ DOMAIN cd_files \subseteq DOMAIN hFilesBefore \cup SavedPaths
        /\ Len(cd_structure) >= Len(hStructureBefore)
        /\ SubSeq(cd_structure, 1, Len(hStructureBefore)) = hStructureBefore
        /\ \A i \in (Len(hStructureBefore) + 1)..Len(cd_structure) :
               /\ cd_structure[i] \in SavedPaths
               /\ \A j \in 1..(i - 1) : cd_structure[j] # cd_structure[i]
        /\ cd_ret.kind = "records" =>
               \A path \in SavedPaths :
                   cd_files[path] = LastRecordOf(cd_ret.records, path).code

\* Records for a path the snapshot held and for a new path were applied.
C29_Witness ==
    /\ cd_ret.kind = "records"
    /\ hFilesBefore # NoFiles
    /\ \E path \in SavedPaths : path \in DOMAIN hFilesBefore
    /\ \E path \in SavedPaths : path \notin Entries(hStructureBefore)

(***************************************************************************)
(* CoderAgent._parse_valid_response on its own (coder.py:102-123).         *)
(***************************************************************************)

\* Most lines in the body of a parsed answer.
MaxParseLines == 3

\* The lines of a parsed answer: a header, a header whose path holds a
\* colon, a header with no path, text, a bare fence, a fence followed by
\* text, an empty line.
ParserLines ==
    { <<"File", ":", " ", "a">>,
      <<"File", ":", " ", "a", ":", "b">>,
      <<"File", ":">>,
      <<"x">>,
      <<Fence>>,
      <<Fence, "py">>,
      <<>> }

\* The answer as the text handed to _parse_valid_response.
ParserText(lines, wrapped) ==
    IF wrapped THEN Wrap(Join(lines, <<NL>>)) ELSE Join(lines, <<NL>>)

ParserInit ==
    /\ \E lines \in SeqsUpTo(ParserLines, MaxParseLines),
          wrapped \in BOOLEAN :
           parser = [pc |-> "ready", lines |-> lines, wrapped |-> wrapped,
                     files |-> <<>>]
    /\ ExecuterInit
    /\ PlannerIdle
    /\ PatcherIdle
    /\ CoderIdle
    /\ OrchIdle

\* One call of _parse_valid_response.
ParserCall ==
    /\ ps_pc = "ready"
    /\ parser' = [parser EXCEPT
                      !.pc = "returned",
                      !.files = _parse_valid_response(
                                    ParserText(ps_lines, ps_wrapped))]
    /\ UNCHANGED <<vars, plannerVars, patcherVars, coderVars,
                 orchVars>>

ParserNext == ParserCall

SpecParser == ParserInit /\ [][ParserNext]_parserVars

(***************************************************************************)
(* Properties of the block parser of the Code Synthesizer.                 *)
(***************************************************************************)

\* A File: header line.
IsHeader(line) == Len(line) >= 2 /\ line[1] = "File" /\ line[2] = ":"

\* The whole text that follows the first colon of a line, trimmed.
AfterFirstColon(line) ==
    Strip(SubSeq(line, Find(line, <<":">>, 1) + 1, Len(line)))

\* The positions of the header lines, in order.
HeaderPositions(lines) ==
    SelectSeq([i \in 1..Len(lines) |-> i], LAMBDA i : IsHeader(lines[i]))

\* The positions of the header lines that name a path, in order.
NamedHeaderPositions(lines) ==
    SelectSeq(HeaderPositions(lines),
              LAMBDA i : AfterFirstColon(lines[i]) # <<>>)

\* C23: the path of each returned record is the whole trimmed text after
\* the first colon of its header, the k-th record belonging to the k-th
\* header that names a path.
C23_PathIsTextAfterFirstColon ==
    ps_pc = "returned" =>
        LET named == NamedHeaderPositions(ps_lines) IN
            \A k \in 1..Len(ps_files) :
                /\ k <= Len(named)
                /\ ps_files[k].file = AfterFirstColon(ps_lines[named[k]])

\* The lines between the header at position i and the next header (or the
\* end), without the bare fences.
ContentAfter(lines, i) ==
    LET later == { j \in (i + 1)..Len(lines) : IsHeader(lines[j]) }
        stop == IF later = {} THEN Len(lines) + 1
                ELSE CHOOSE j \in later : \A m \in later : j <= m
    IN  SelectSeq(SubSeq(lines, i + 1, stop - 1), LAMBDA l : l # <<Fence>>)

\* C24: in an answer between lines of tildes, the content of each returned
\* record is made of the lines between its header and the next one, bare
\* fences left out and every other line kept, in order.
C24_OnlyBareFencesRemoved ==
    (ps_pc = "returned" /\ ps_wrapped) =>
        LET named == NamedHeaderPositions(ps_lines) IN
            \A k \in 1..Len(ps_files) :
                /\ k <= Len(named)
                /\ ps_files[k].code =
                       Join(ContentAfter(ps_lines, named[k]), <<NL>>)

\* C25: the call returns one record per header line, a header with an
\* empty name included.
C25_OneRecordPerHeader ==
    ps_pc = "returned" => Len(ps_files) = Len(HeaderPositions(ps_lines))

(***************************************************************************)
(* AgentOrchestrator: the entry points generate_plan, plan_orchestrator,   *)
(* generate_code and execute_orchestrator.                                 *)
(***************************************************************************)

\* The longest planner answer an entry point is run on, in lines.
MaxOrchLines == 3

\* A call of an agent's execute method; step is curr_step for the coder.
Call(agent, step) == [agent |-> agent, step |-> step]

\* planner_agent.data["plan"] after planner_agent.execute on a new
\* PlannerAgent: execute catches every exception, and the plan is the
\* initial empty list unless _parse_response stored one.
PlanAfterExecute(prompt_ok, response) ==
    IF prompt_ok THEN _parse_response(InitialData, response).data.plan
    ELSE InitialData.plan

OrchInit ==
    /\ orch = [pc |-> "ready", entry |-> "none", plan |-> <<>>, idx |-> 0,
               ret |-> [kind |-> "none", plan |-> <<>>], hCalls |-> <<>>]
    /\ ExecuterInit
    /\ PlannerIdle
    /\ PatcherIdle
    /\ CoderIdle
    /\ ParserIdle

\* generate_plan.  S3Manager and CoderAgent are constructed before the try
\* (lines 43-44): an exception there leaves the method.  Inside the try
\* get_repo_code is called without should_ignore_file (line 52), a
\* TypeError at the latest there, so the planner is never reached.
GeneratePlan(s3_ok, coder_ok) ==
    /\ o_pc = "ready"
    /\ orch' = [orch EXCEPT
                    !.pc = "returned",
                    !.entry = "generate_plan",
                    !.ret = [kind |-> IF s3_ok /\ coder_ok THEN "failed"
                                      ELSE "raised",
                             plan |-> <<>>]]
    /\ UNCHANGED <<vars, plannerVars, patcherVars, coderVars, parserVars>>

\* plan_orchestrator.  fetch_ok is false when get_repo_structure or
\* get_repo_files_content raises; otherwise the planner runs and the
\* stored plan is returned as it is.
PlanOrchestrator(fetch_ok, prompt_ok, response) ==
    /\ o_pc = "ready"
    /\ IF fetch_ok
       THEN LET plan == PlanAfterExecute(prompt_ok, response) IN
                orch' = [orch EXCEPT
                             !.pc = "returned",
                             !.entry = "plan_orchestrator",
                             !.plan = plan,
                             !.hCalls = <<Call("planner", EmptyDict)>>,
                             !.ret = [kind |-> "plan", plan |-> plan]]
       ELSE orch' = [orch EXCEPT
                         !.pc = "returned",
                         !.entry = "plan_orchestrator",
                         !.ret = [kind |-> "failed", plan |-> <<>>]]
    /\ UNCHANGED <<vars, plannerVars, patcherVars, coderVars, parserVars>>

\* generate_code.  The constructors stand before the try (lines 95-96);
\* inside it get_repo_structure is called with one argument (line 102), a
\* TypeError at the latest there, so the loop over the steps is never
\* reached.
GenerateCode(s3_ok, coder_ok) ==
    /\ o_pc = "ready"
    /\ orch' = [orch EXCEPT
                    !.pc = "returned",
                    !.entry = "generate_code",
                    !.ret = [kind |-> IF s3_ok /\ coder_ok THEN "failed"
                                      ELSE "raised",
                             plan |-> <<>>]]
    /\ UNCHANGED <<vars, plannerVars, patcherVars, coderVars, parserVars>>

\* execute_orchestrator up to the loop head (lines 151-166): the fetches,
\* the planner, the CoderAgent constructor, all inside the try.
ExecuteOrchestrator(fetch_ok, prompt_ok, response, coder_ok) ==
    /\ o_pc = "ready"
    /\ IF ~fetch_ok
       THEN orch' = [orch EXCEPT
                         !.pc = "returned",
                         !.entry = "execute_orchestrator",
                         !.ret = [kind |-> "failed", plan |-> <<>>]]
       ELSE LET plan == PlanAfterExecute(prompt_ok, response) IN
                orch' = [orch EXCEPT
                             !.pc = IF coder_ok THEN "coding"
                                    ELSE "returned",
                             !.entry = "execute_orchestrator",
                             !.plan = plan,
                             !.hCalls = <<Call("planner", EmptyDict)>>,
                             !.ret = [kind |-> IF coder_ok THEN "none"
                                               ELSE "failed",
                                      plan |-> <<>>]]
    /\ UNCHANGED <<vars, plannerVars, patcherVars, coderVars, parserVars>>

\* One round of `for step in step_by_step_plan` (lines 167-170):
\* coder.execute catches every exception and its value is dropped.
OrchCoderStep ==
    /\ o_pc = "coding"
    /\ o_idx < Len(o_plan)
    /\ orch' = [orch EXCEPT
                    !.idx = o_idx + 1,
                    !.hCalls = Append(hCalls,
                                      Call("coder", o_plan[o_idx + 1]))]
    /\ UNCHANGED <<vars, plannerVars, patcherVars, coderVars, parserVars>>

\* After the loop (lines 172-174): a log line "Executer agent start", then
\* `return step_by_step_plan`.
OrchReturn ==
    /\ o_pc = "coding"
    /\ o_idx = Len(o_plan)
    /\ orch' = [orch EXCEPT
                    !.pc = "returned",
                    !.ret = [kind |-> "plan", plan |-> o_plan]]
    /\ UNCHANGED <<vars, plannerVars, patcherVars, coderVars, parserVars>>

OrchNext ==
    \/ \E s3_ok \in BOOLEAN, coder_ok \in BOOLEAN :
           GeneratePlan(s3_ok, coder_ok)
    \/ \E fetch_ok \in BOOLEAN, prompt_ok \in BOOLEAN,
          response \in PlannerResponses(MaxOrchLines) :
           PlanOrchestrator(fetch_ok, prompt_ok, response)
    \/ \E s3_ok \in BOOLEAN, coder_ok \in BOOLEAN :
           GenerateCode(s3_ok, coder_ok)
    \/ \E fetch_ok \in BOOLEAN, prompt_ok \in BOOLEAN,
          response \in PlannerResponses(MaxOrchLines),
          coder_ok \in BOOLEAN :
           ExecuteOrchestrator(fetch_ok, prompt_ok, response, coder_ok)
    \/ OrchCoderStep
    \/ OrchReturn

SpecOrch == OrchInit /\ [][OrchNext]_orchVars

(***************************************************************************)
(* Properties of the entry points.                                         *)
(***************************************************************************)

\* C21: what an entry point hands to its caller is a result whose status is
\* success or failed; no exception leaves it and no other value is
\* returned.
C21_StructuredResult ==
    o_pc = "returned" => o_ret.kind \in {"success", "failed"}

RECURSIVE CoderCalls(_)
\* One call of the coder per step, in plan order.
CoderCalls(plan) ==
    IF plan = <<>> THEN <<>>
    ELSE <<Call("coder", Head(plan))>> \o CoderCalls(Tail(plan))

\* C22: when execute_orchestrator has gone through a plan with steps, the
\* calls were the planner, the coder once per step in plan order, and then
\* the executer.
C22_CoderPerStepThenExecuter ==
    (o_pc = "returned" /\ o_entry = "execute_orchestrator"
        /\ o_ret.kind = "plan" /\ o_plan # <<>>) =>
        hCalls = <<Call("planner", EmptyDict)>> \o CoderCalls(o_plan)
                    \o <<Call("executer", EmptyDict)>>

====
